---- MODULE Spec2Model ----
(***************************************************************************)
(* Model of src/app.py: a Streamlit script that takes one uploaded image   *)
(* or PDF, turns it into a list of base64 data-URL page images, sends each *)
(* page to the Groq vision model and shows the concatenated Markdown.      *)
(*                                                                         *)
(* Strings that the claims inspect (payloads, OCR results, the aggregate)  *)
(* are sequences of one-character strings; binary data are sequences of    *)
(* bytes 0..255.                                                           *)
(***************************************************************************)
EXTENDS Integers, Sequences, FiniteSets, TLC

\* ---------------------------------------------------------------- bounds
MaxPages == 3      \* most pages of an uploaded PDF
MaxLen == 3        \* most bytes of an uploaded image
MaxPasses == 2     \* script runs (one per user event) explored

ByteVals == {0, 77, 255}
ByteSeqs == UNION {[1..n -> ByteVals] : n \in 0..MaxLen}

VARIABLES
    system,           \* platform.system().lower()
    poppler,          \* whether pdftoppm is resolvable on the host
    pc,               \* position of the script
    passes,           \* script runs so far
    uploaded_file,    \* st.file_uploader value
    tmp_name,         \* tmp_file.name of this run (0: none created)
    temp_file_path,   \* local of convert_pdf_to_images (0: unassigned)
    tmpfs,            \* temporary files that exist on disk
    created,          \* temporary files created so far (names 1..created)
    images,           \* convert_from_path result
    encoded_images,   \* list of data-URL payloads
    markdown_output,  \* the accumulator
    idx,              \* 1-based position of the per-page loop
    errors,           \* st.error banners of this run, in order
    panel,            \* the "Markdown Output" text area
    requests,         \* history: page number of every OCR request issued
    outcomes,         \* history: what every ocr_with_groq call returned
    checked,          \* history: check_poppler_installation was called
    conversions,      \* history: convert_from_path calls of this run
    pages_encoded     \* history: pages encoded by the rasterizer loop

vars == <<system, poppler, pc, passes, uploaded_file, tmp_name,
          temp_file_path, tmpfs, created, images, encoded_images,
          markdown_output, idx, errors, panel, requests, outcomes,
          checked, conversions, pages_encoded>>

env == <<system, poppler>>
rast == <<tmp_name, temp_file_path, tmpfs, created, images, checked,
          conversions, pages_encoded>>
loop == <<markdown_output, idx, requests, outcomes>>

\* ------------------------------------------------------------- the inputs
Systems == {"linux", "darwin", "windows", "java"}

NoFile == [type |-> "none", data |-> <<>>, npages |-> 0, valid |-> FALSE]

ImageTypes == {"image/jpeg", "image/png"}

\* an image upload: its declared MIME type and its bytes
ImageUploads ==
    {[type |-> t, data |-> d, npages |-> 0, valid |-> FALSE] :
        t \in ImageTypes, d \in ByteSeqs}

\* a PDF upload: a well-formed document of npages pages, or a malformed one
PdfUploads ==
    {[type |-> "application/pdf", data |-> <<>>, npages |-> n, valid |-> TRUE] :
        n \in 1..MaxPages}
    \cup {[type |-> "application/pdf", data |-> <<>>, npages |-> 0, valid |-> FALSE]}

Uploads == ImageUploads \cup PdfUploads

NL == "\n"
NLNL == <<NL, NL>>

\* texts the model may return: empty, "# A", "# B"
Results == {<<>>, <<"#", " ", "A">>, <<"#", " ", "B">>}

NoPanel == [shown |-> FALSE, text |-> <<>>]

\* ----------------------------------------------------------------- base64
B64Alphabet ==
    <<"A","B","C","D","E","F","G","H","I","J","K","L","M","N","O","P",
      "Q","R","S","T","U","V","W","X","Y","Z","a","b","c","d","e","f",
      "g","h","i","j","k","l","m","n","o","p","q","r","s","t","u","v",
      "w","x","y","z","0","1","2","3","4","5","6","7","8","9","+","/">>

B64Char(s) == B64Alphabet[s + 1]

RECURSIVE b64encode(_)
b64encode(b) ==
    IF Len(b) = 0 THEN <<>>
    ELSE IF Len(b) = 1 THEN
        LET n == b[1] * 65536
        IN  <<B64Char(n \div 262144), B64Char((n \div 4096) % 64), "=", "=">>
    ELSE IF Len(b) = 2 THEN
        LET n == b[1] * 65536 + b[2] * 256
        IN  <<B64Char(n \div 262144), B64Char((n \div 4096) % 64),
              B64Char((n \div 64) % 64), "=">>
    ELSE
        LET n == b[1] * 65536 + b[2] * 256 + b[3]
        IN  <<B64Char(n \div 262144), B64Char((n \div 4096) % 64),
              B64Char((n \div 64) % 64), B64Char(n % 64)>>
            \o b64encode(SubSeq(b, 4, Len(b)))

B64Index(c) == CHOOSE i \in 0..63 : B64Alphabet[i + 1] = c

RECURSIVE b64decode(_)
b64decode(s) ==
    IF Len(s) < 4 THEN <<>>
    ELSE
        LET pad == IF s[3] = "=" THEN 2 ELSE IF s[4] = "=" THEN 1 ELSE 0
            v(i) == IF s[i] = "=" THEN 0 ELSE B64Index(s[i])
            n == v(1) * 262144 + v(2) * 4096 + v(3) * 64 + v(4)
            b == <<n \div 65536, (n \div 256) % 256, n % 256>>
        IN  SubSeq(b, 1, 3 - pad) \o b64decode(SubSeq(s, 5, Len(s)))

\* the literal "data:image/jpeg;base64," of lines 47 and 77
JpegPrefix ==
    <<"d","a","t","a",":","i","m","a","g","e","/","j","p","e","g",
      ";","b","a","s","e","6","4",",">>

encode_image(file) == JpegPrefix \o b64encode(file.data)

\* bytes of page p saved as JPEG: the SOI marker, then the page's content
PageJpeg(p) == <<255, 216, p>>

EncodePagePayload(p) == JpegPrefix \o b64encode(PageJpeg(p))

check_poppler_installation ==
    IF system = "linux" \/ system = "darwin" THEN poppler
    ELSE IF system = "windows" THEN poppler
    ELSE TRUE

\* variant: every upload is sent to the rasterizer
IsPdf_Any(f) == f.type # "none"

IsPdf(f) == f.type = "application/pdf"

\* variant: the separator is appended for empty results too
Accumulate_AlwaysSep(md, result) == md \o result \o NLNL

Accumulate(md, result) ==
    IF result # <<>> THEN md \o result \o NLNL ELSE md

\* ------------------------------------------------------------------ Init
Init ==
    /\ system \in Systems
    /\ poppler \in BOOLEAN
    /\ pc = "wait"
    /\ passes = 0
    /\ uploaded_file = NoFile
    /\ tmp_name = 0
    /\ temp_file_path = 0
    /\ tmpfs = {}
    /\ created = 0
    /\ images = <<>>
    /\ encoded_images = <<>>
    /\ markdown_output = <<>>
    /\ idx = 0
    /\ errors = <<>>
    /\ panel = NoPanel
    /\ requests = <<>>
    /\ outcomes = <<>>
    /\ checked = FALSE
    /\ conversions = 0
    /\ pages_encoded = 0

\* --------------------------------------------------------------- actions

\* A user event reruns the script from the top with the uploader's value;
\* every local and every widget of the previous run is gone, the disk is not.
Rerun ==
    /\ pc = "wait"
    /\ passes < MaxPasses
    /\ \E f \in Uploads \cup {NoFile} :
        /\ uploaded_file' = f
        /\ pc' = IF f # NoFile THEN "dispatch" ELSE "wait"
    /\ passes' = passes + 1
    /\ tmp_name' = 0
    /\ temp_file_path' = 0
    /\ images' = <<>>
    /\ encoded_images' = <<>>
    /\ markdown_output' = <<>>
    /\ idx' = 0
    /\ errors' = <<>>
    /\ panel' = NoPanel
    /\ requests' = <<>>
    /\ outcomes' = <<>>
    /\ checked' = FALSE
    /\ conversions' = 0
    /\ pages_encoded' = 0
    /\ UNCHANGED <<env, tmpfs, created>>

\* uploaded_file.type == "application/pdf": enter convert_pdf_to_images
DispatchPdf ==
    /\ pc = "dispatch"
    /\ IsPdf(uploaded_file)
    /\ pc' = "check_poppler"
    /\ UNCHANGED <<env, passes, uploaded_file, rast, encoded_images, loop,
                   errors, panel>>

\* else branch: encoded_images = [encode_image(uploaded_file)]
DirectEncode ==
    /\ pc = "dispatch"
    /\ ~IsPdf(uploaded_file)
    /\ encoded_images' = <<encode_image(uploaded_file)>>
    /\ pc' = "guard"
    /\ UNCHANGED <<env, passes, uploaded_file, rast, loop, errors, panel>>

\* variant: the install error is shown but the function does not return
PopplerAbsent_FallThrough ==
    /\ pc = "check_poppler"
    /\ ~check_poppler_installation
    /\ checked' = TRUE
    /\ errors' = Append(errors, "poppler")
    /\ pc' = "tmp_create"
    /\ UNCHANGED <<env, passes, uploaded_file, tmp_name, temp_file_path,
                   tmpfs, created, images, conversions, pages_encoded,
                   encoded_images, loop, panel>>

\* if not check_poppler_installation(): st.error(...); return []
PopplerAbsent ==
    /\ pc = "check_poppler"
    /\ ~check_poppler_installation
    /\ checked' = TRUE
    /\ errors' = Append(errors, "poppler")
    /\ encoded_images' = <<>>
    /\ pc' = "guard"
    /\ UNCHANGED <<env, passes, uploaded_file, tmp_name, temp_file_path,
                   tmpfs, created, images, conversions, pages_encoded,
                   loop, panel>>

PopplerOk ==
    /\ pc = "check_poppler"
    /\ check_poppler_installation
    /\ checked' = TRUE
    /\ pc' = "tmp_create"
    /\ UNCHANGED <<env, passes, uploaded_file, tmp_name, temp_file_path,
                   tmpfs, created, images, conversions, pages_encoded,
                   encoded_images, loop, errors, panel>>

\* tempfile.NamedTemporaryFile(delete=False, suffix=".pdf")
TmpCreate ==
    /\ pc = "tmp_create"
    /\ created' = created + 1
    /\ tmp_name' = created + 1
    /\ tmpfs' = tmpfs \cup {created + 1}
    /\ pc' = "tmp_write"
    /\ UNCHANGED <<env, passes, uploaded_file, temp_file_path, images,
                   checked, conversions, pages_encoded, encoded_images,
                   loop, errors, panel>>

\* except Exception as e: st.error("Error converting PDF: ..."); return []
\* The handler removes nothing: a file made with delete=False stays on disk.
ConvertExcept ==
    /\ errors' = Append(errors, "convert")
    /\ encoded_images' = <<>>
    /\ pc' = "guard"
    /\ UNCHANGED <<env, passes, uploaded_file, tmp_name, temp_file_path,
                   tmpfs, created, images, checked, pages_encoded, loop,
                   panel>>

\* tmp_file.write(pdf_file.read()); temp_file_path = tmp_file.name
TmpWriteOk ==
    /\ pc = "tmp_write"
    /\ temp_file_path' = tmp_name
    /\ pc' = "convert"
    /\ UNCHANGED <<env, passes, uploaded_file, tmp_name, tmpfs, created,
                   images, checked, conversions, pages_encoded,
                   encoded_images, loop, errors, panel>>

\* the write raises (disk full, I/O error): the with block closes the file
TmpWriteFail ==
    /\ pc = "tmp_write"
    /\ ConvertExcept
    /\ UNCHANGED conversions

\* images = convert_from_path(temp_file_path); encoded_images = []
ConvertOk ==
    /\ pc = "convert"
    /\ uploaded_file.valid
    /\ conversions' = conversions + 1
    /\ images' = [p \in 1..uploaded_file.npages |-> p]
    /\ encoded_images' = <<>>
    /\ pc' = "encode_page"
    /\ UNCHANGED <<env, passes, uploaded_file, tmp_name, temp_file_path,
                   tmpfs, created, checked, pages_encoded, loop, errors,
                   panel>>

\* convert_from_path raises on a malformed document
ConvertFail ==
    /\ pc = "convert"
    /\ ~uploaded_file.valid
    /\ conversions' = conversions + 1
    /\ ConvertExcept

\* one iteration of the rasterizer loop: save as JPEG, encode, append
EncodePageOk ==
    /\ pc = "encode_page"
    /\ Len(encoded_images) < Len(images)
    /\ encoded_images' =
          Append(encoded_images,
                 EncodePagePayload(images[Len(encoded_images) + 1]))
    /\ pages_encoded' = pages_encoded + 1
    /\ UNCHANGED <<env, pc, passes, uploaded_file, tmp_name, temp_file_path,
                   tmpfs, created, images, checked, conversions, loop,
                   errors, panel>>

\* variant: the handler returns the pages encoded so far
EncodePageFail_Partial ==
    /\ pc = "encode_page"
    /\ Len(encoded_images) < Len(images)
    /\ errors' = Append(errors, "convert")
    /\ pc' = "guard"
    /\ UNCHANGED <<env, passes, uploaded_file, rast, encoded_images, loop,
                   panel>>

\* image.save raises on some page
EncodePageFail ==
    /\ pc = "encode_page"
    /\ Len(encoded_images) < Len(images)
    /\ ConvertExcept
    /\ UNCHANGED conversions

\* os.remove(temp_file_path); progress_bar.empty(); return encoded_images
Cleanup ==
    /\ pc = "encode_page"
    /\ Len(encoded_images) = Len(images)
    /\ tmpfs' = tmpfs \ {temp_file_path}
    /\ pc' = "guard"
    /\ UNCHANGED <<env, passes, uploaded_file, tmp_name, temp_file_path,
                   created, images, checked, conversions, pages_encoded,
                   encoded_images, loop, errors, panel>>

\* if encoded_images: markdown_output = ""; start the loop.  Otherwise the
\* script ends.
Guard ==
    /\ pc = "guard"
    /\ IF encoded_images # <<>>
       THEN /\ markdown_output' = <<>>
            /\ idx' = 1
            /\ pc' = "ocr_call"
       ELSE /\ pc' = "wait"
            /\ UNCHANGED <<markdown_output, idx>>
    /\ UNCHANGED <<env, passes, uploaded_file, rast, encoded_images,
                   requests, outcomes, errors, panel>>

\* st.info("Processing page ..."); client.chat.completions.create(...)
OcrRequest ==
    /\ pc = "ocr_call"
    /\ idx <= Len(encoded_images)
    /\ requests' = Append(requests, idx)
    /\ pc' = "ocr_wait"
    /\ UNCHANGED <<env, passes, uploaded_file, rast, encoded_images,
                   markdown_output, idx, outcomes, errors, panel>>

\* the request returns text; if result: markdown_output += result + "\n\n"
OcrReturn ==
    /\ pc = "ocr_wait"
    /\ \E r \in Results :
        /\ outcomes' = Append(outcomes, [ok |-> TRUE, text |-> r])
        /\ markdown_output' = Accumulate(markdown_output, r)
    /\ idx' = idx + 1
    /\ pc' = "ocr_call"
    /\ UNCHANGED <<env, passes, uploaded_file, rast, encoded_images,
                   requests, errors, panel>>

\* variant: a failed request ends the loop
OcrFail_Abort ==
    /\ pc = "ocr_wait"
    /\ errors' = Append(errors, "groq")
    /\ outcomes' = Append(outcomes, [ok |-> FALSE, text |-> <<>>])
    /\ markdown_output' = Accumulate(markdown_output, <<>>)
    /\ idx' = Len(encoded_images) + 1
    /\ pc' = "ocr_call"
    /\ UNCHANGED <<env, passes, uploaded_file, rast, encoded_images,
                   requests, panel>>

\* variant: a failed request is issued again for the same page
OcrFail_Retry ==
    /\ pc = "ocr_wait"
    /\ errors' = Append(errors, "groq")
    /\ outcomes' = Append(outcomes, [ok |-> FALSE, text |-> <<>>])
    /\ markdown_output' = Accumulate(markdown_output, <<>>)
    /\ idx' = idx
    /\ pc' = "ocr_call"
    /\ UNCHANGED <<env, passes, uploaded_file, rast, encoded_images,
                   requests, panel>>

\* the request raises: st.error("Error processing image with Groq: ...");
\* return "" -- the loop goes on with the next page
OcrFail ==
    /\ pc = "ocr_wait"
    /\ errors' = Append(errors, "groq")
    /\ outcomes' = Append(outcomes, [ok |-> FALSE, text |-> <<>>])
    /\ markdown_output' = Accumulate(markdown_output, <<>>)
    /\ idx' = idx + 1
    /\ pc' = "ocr_call"
    /\ UNCHANGED <<env, passes, uploaded_file, rast, encoded_images,
                   requests, panel>>

\* variant: the text area is rendered whatever the accumulator holds
Display_Always ==
    /\ pc = "ocr_call"
    /\ idx > Len(encoded_images)
    /\ panel' = [shown |-> TRUE, text |-> markdown_output]
    /\ pc' = "wait"
    /\ UNCHANGED <<env, passes, uploaded_file, rast, encoded_images, loop,
                   errors>>

\* variant: the script ends after the loop without rendering anything
Display_Never ==
    /\ pc = "ocr_call"
    /\ idx > Len(encoded_images)
    /\ pc' = "wait"
    /\ UNCHANGED <<env, passes, uploaded_file, rast, encoded_images, loop,
                   errors, panel>>

\* after the loop: if markdown_output: st.markdown(...); st.text_area(...)
Display ==
    /\ pc = "ocr_call"
    /\ idx > Len(encoded_images)
    /\ panel' = IF markdown_output # <<>>
                THEN [shown |-> TRUE, text |-> markdown_output]
                ELSE panel
    /\ pc' = "wait"
    /\ UNCHANGED <<env, passes, uploaded_file, rast, encoded_images, loop,
                   errors>>

\* every step of a running script (everything but the user's event)
ScriptStep ==
    \/ DispatchPdf
    \/ DirectEncode
    \/ PopplerAbsent
    \/ PopplerOk
    \/ TmpCreate
    \/ TmpWriteOk
    \/ TmpWriteFail
    \/ ConvertOk
    \/ ConvertFail
    \/ EncodePageOk
    \/ EncodePageFail
    \/ Cleanup
    \/ Guard
    \/ OcrRequest
    \/ OcrReturn
    \/ OcrFail
    \/ Display

Next ==
    \/ Rerun
    \/ DispatchPdf
    \/ DirectEncode
    \/ PopplerAbsent
    \/ PopplerOk
    \/ TmpCreate
    \/ TmpWriteOk
    \/ TmpWriteFail
    \/ ConvertOk
    \/ ConvertFail
    \/ EncodePageOk
    \/ EncodePageFail
    \/ Cleanup
    \/ Guard
    \/ OcrRequest
    \/ OcrReturn
    \/ OcrFail
    \/ Display

Spec == Init /\ [][Next]_vars

\* The script is one sequential thread: a started run takes its next step,
\* and a blocking OCR call returns or raises.
FairSpec == Spec /\ WF_vars(ScriptStep)

\* ------------------------------------------------- vocabulary of the claims
Range(s) == {s[i] : i \in DOMAIN s}

PassEnded == pc = "wait" /\ passes > 0

TextA == <<"#", " ", "A">>
TextB == <<"#", " ", "B">>

\* what one returned text adds to the aggregate
Piece(t) == IF t = <<>> THEN <<>> ELSE t \o NLNL

\* the texts of the pages whose request did not fail, in page order
RECURSIVE OkPagesText(_)
OkPagesText(o) ==
    IF o = <<>> THEN <<>>
    ELSE OkPagesText(SubSeq(o, 1, Len(o) - 1))
         \o (IF o[Len(o)].ok THEN Piece(o[Len(o)].text) ELSE <<>>)

\* every non-empty returned text followed by a blank line, in page order
RECURSIVE JoinNonEmpty(_)
JoinNonEmpty(o) ==
    IF o = <<>> THEN <<>>
    ELSE IF o[1].text # <<>>
         THEN o[1].text \o <<NL, NL>> \o JoinNonEmpty(Tail(o))
         ELSE JoinNonEmpty(Tail(o))

\* C1: whichever pages fail, the loop visits every page and the aggregate is
\* exactly the results of the pages that did not fail, in page order, with
\* nothing standing in for a failed page.
C1_FailedPagesOmitted ==
    /\ markdown_output = OkPagesText(outcomes)
    /\ PassEnded => /\ Len(requests) = Len(encoded_images)
                    /\ Len(outcomes) = Len(encoded_images)

\* page 2 of 3 failed; pages 1 and 3 are in the aggregate, in that order
C1_Witness ==
    /\ PassEnded
    /\ Len(outcomes) = 3
    /\ outcomes[1] = [ok |-> TRUE, text |-> TextA]
    /\ ~outcomes[2].ok
    /\ outcomes[3] = [ok |-> TRUE, text |-> TextB]
    /\ markdown_output = TextA \o NLNL \o TextB \o NLNL

\* C2: the aggregate is the concatenation, in page order, of every non-empty
\* OCR result followed by exactly "\n\n"; an empty result adds nothing.
C2_Concatenation == markdown_output = JoinNonEmpty(outcomes)

\* results "# A", "", "# B" give "# A\n\n# B\n\n"
C2_Witness ==
    /\ PassEnded
    /\ outcomes = << [ok |-> TRUE, text |-> TextA],
                     [ok |-> TRUE, text |-> <<>>],
                     [ok |-> TRUE, text |-> TextB] >>
    /\ markdown_output = <<"#", " ", "A", "\n", "\n", "#", " ", "B", "\n", "\n">>

\* C3: whenever no rasterization call is between creating its temporary file
\* and returning, no temporary file exists.
C3_TempFileRemoved ==
    pc \notin {"tmp_write", "convert", "encode_page"} => tmpfs = {}

\* C4: when the toolchain is found absent for a PDF upload, the install
\* error is shown, no temporary file is created, nothing is converted, no OCR
\* request is issued and no panel is rendered.
C4_ToolchainAbsent ==
    (IsPdf(uploaded_file) /\ checked /\ ~check_poppler_installation) =>
        /\ "poppler" \in Range(errors)
        /\ tmp_name = 0
        /\ conversions = 0
        /\ pages_encoded = 0
        /\ encoded_images = <<>>
        /\ requests = <<>>
        /\ ~panel.shown
        /\ pc \in {"guard", "wait"}

C4_Witness ==
    /\ PassEnded
    /\ IsPdf(uploaded_file)
    /\ uploaded_file.valid
    /\ errors = <<"poppler">>

MimeChars(t) ==
    IF t = "image/png" THEN <<"i","m","a","g","e","/","p","n","g">>
    ELSE <<"i","m","a","g","e","/","j","p","e","g">>

DataPrefix(t) ==
    <<"d","a","t","a",":">> \o MimeChars(t) \o <<";","b","a","s","e","6","4",",">>

StartsWith(s, pre) == Len(s) >= Len(pre) /\ SubSeq(s, 1, Len(pre)) = pre

\* C5: for an image/jpeg or image/png upload the payload starts with
\* "data:<mime>;base64," for the upload's own MIME type, and decoding the
\* rest as base64 gives back the uploaded bytes.
C5_DataUrlRoundTrip ==
    (uploaded_file.type \in ImageTypes /\ pc \in {"guard", "ocr_call", "ocr_wait", "wait"}) =>
        \A i \in DOMAIN encoded_images :
            LET pre == DataPrefix(uploaded_file.type)
                payload == encoded_images[i]
            IN  /\ StartsWith(payload, pre)
                /\ b64decode(SubSeq(payload, Len(pre) + 1, Len(payload)))
                       = uploaded_file.data

\* C6: the requests of a run are pages 1, 2, ... in that order, each page
\* once, never more than one outstanding, and a finished run has issued one
\* request per page image.
C6_OneRequestPerPage ==
    /\ requests = [i \in 1..Len(requests) |-> i]
    /\ Len(requests) <= Len(encoded_images)
    /\ Len(requests) - Len(outcomes) = (IF pc = "ocr_wait" THEN 1 ELSE 0)
    /\ PassEnded => Len(requests) = Len(encoded_images)

C6_Witness ==
    /\ PassEnded
    /\ requests = <<1, 2, 3>>
    /\ ~outcomes[1].ok
    /\ ~outcomes[2].ok

\* C7: an image upload never reaches the toolchain check or the rasterizer,
\* gives a one-element page sequence and exactly one OCR request, whether or
\* not the request succeeds.
C7_DirectImage ==
    uploaded_file.type \in ImageTypes =>
        /\ ~checked
        /\ tmp_name = 0
        /\ conversions = 0
        /\ "poppler" \notin Range(errors)
        /\ pc # "dispatch" => Len(encoded_images) = 1
        /\ pc = "wait" => Len(requests) = 1 /\ Len(outcomes) = 1

C7_Witness ==
    /\ PassEnded
    /\ uploaded_file.type = "image/png"
    /\ Len(encoded_images) = 1
    /\ requests = <<1>>
    /\ ~outcomes[1].ok

\* the three ways a run can end
Displayed ==
    /\ panel.shown
    /\ panel.text = markdown_output
    /\ markdown_output # <<>>

Idle ==
    /\ ~panel.shown
    /\ requests = <<>>
    /\ uploaded_file = NoFile \/ errors # <<>>

SilentAggregate ==
    /\ ~panel.shown
    /\ encoded_images # <<>>
    /\ Len(outcomes) = Len(encoded_images)
    /\ \A i \in DOMAIN outcomes : outcomes[i].text = <<>>

\* C8 as stated: a finished run is Displayed or Idle.
C8_DisplayedOrIdle == PassEnded => Displayed \/ Idle

\* C8 (amended): every run terminates, and a finished run is Displayed, Idle,
\* or has processed every page and rendered nothing because every page
\* failed or returned empty text.
C8_Terminates ==
    /\ (pc # "wait") ~> (pc = "wait")
    /\ [](PassEnded => Displayed \/ Idle \/ SilentAggregate)

C8_Witness ==
    /\ PassEnded
    /\ SilentAggregate
    /\ Len(outcomes) = 2
    /\ ~outcomes[1].ok
    /\ outcomes[2] = [ok |-> TRUE, text |-> <<>>]

\* C9: the panel is rendered exactly when the aggregate is non-empty, that
\* is exactly when some page returned non-empty text; a rendered panel holds
\* exactly the aggregate and is never empty.
C9_PanelIffNonEmpty ==
    /\ panel.shown => panel.text = markdown_output /\ panel.text # <<>>
    /\ PassEnded =>
        /\ panel.shown <=> markdown_output # <<>>
        /\ panel.shown <=> \E i \in DOMAIN outcomes : outcomes[i].text # <<>>

C9_Witness ==
    /\ PassEnded
    /\ panel.shown
    /\ Len(outcomes) = 2
    /\ ~outcomes[1].ok
    /\ panel.text = TextB \o NLNL

\* C10: a failed conversion is reported once, returns no page at all (even
\* when pages were already encoded), leads to no OCR request and no panel,
\* and is not tried again.
C10_AllOrNothing ==
    /\ (IsPdf(uploaded_file) /\ ~uploaded_file.valid /\ conversions > 0)
          => "convert" \in Range(errors)
    /\ "convert" \in Range(errors) =>
        /\ encoded_images = <<>>
        /\ requests = <<>>
        /\ ~panel.shown
        /\ conversions <= 1
        /\ errors = <<"convert">>
        /\ pc \in {"guard", "wait"}

\* encoding failed after at least one page had been encoded
C10_Witness ==
    /\ PassEnded
    /\ errors = <<"convert">>
    /\ pages_encoded >= 1
    /\ pages_encoded < uploaded_file.npages

====
